---- MODULE Spec2Model ----
(***************************************************************************)
(* codegen_helpers.py: the generators of the Ruby encode/decode method     *)
(* bodies of an AMQP method's argument list, together with the behaviour   *)
(* of the Ruby statements they emit.                                       *)
(*                                                                         *)
(* A generated statement is a record [op, name, k]: op names the Ruby      *)
(* statement template, name is the field it mentions (its position in      *)
(* m.arguments, 0 when it mentions none) and k is the number the template  *)
(* is formatted with (a slice width, an offset increment, a shift).        *)
(*                                                                         *)
(* A Ruby value is a record [t, b]: t is its class ("int", "str", "bool",  *)
(* "table", "nil", or "unset" for a local that was never assigned) and b   *)
(* its bytes.  An Integer is held as its big-endian base-256 digits        *)
(* without leading zeros, so that 32- and 64-bit values keep their width.  *)
(***************************************************************************)
EXTENDS Integers, Sequences, FiniteSets, TLC

\* ------------------------------------------------------------- bounds
MaxArgs == 3      \* longest mixed argument list
MaxRun == 10      \* longest pure bit run
MaxCut == 1       \* most bytes dropped from the end of a delivered buffer

\* ------------------------------------------------------------- domains
KnownDomains ==
  {"shortstr", "longstr", "octet", "short", "long", "longlong", "timestamp",
   "bit", "table"}

\* what spec.resolveDomain can return: the nine domains, or something else
AllDomains == KnownDomains \cup {"bogus"}

None == <<>>
Some(i) == <<i>>
Get(o) == o[1]

\* ------------------------------------------------------------- Ruby values
Val(t, b) == [t |-> t, b |-> b]
Nil == Val("nil", <<>>)
Unset == Val("unset", <<>>)
RInt(digits) == Val("int", digits)
RStr(bytes) == Val("str", bytes)
RBool(x) == Val("bool", IF x THEN <<1>> ELSE <<0>>)
RTable(body) == Val("table", body)

\* Ruby truthiness: everything but nil and false
Truthy(v) == ~(v.t = "nil" \/ v = RBool(FALSE))

RECURSIVE Zeros(_)
Zeros(n) == IF n <= 0 THEN <<>> ELSE <<0>> \o Zeros(n - 1)

RECURSIVE StripZeros(_)
StripZeros(s) ==
  IF s = <<>> THEN <<>>
  ELSE IF s[1] = 0 THEN StripZeros(Tail(s)) ELSE s

Min(a, b) == IF a <= b THEN a ELSE b

\* the digits of a small natural, and back (lengths and offsets only)
RECURSIVE Digits(_)
Digits(n) == IF n = 0 THEN <<>> ELSE Digits(n \div 256) \o <<n % 256>>

RECURSIVE ToNat(_)
ToNat(d) ==
  IF d = <<>> THEN 0 ELSE 256 * ToNat(SubSeq(d, 1, Len(d) - 1)) + d[Len(d)]

\* [v].pack of an unsigned big-endian integer of w bytes: the low w bytes
PackBE(digits, w) ==
  LET padded == Zeros(w) \o digits
  IN SubSeq(padded, Len(padded) - w + 1, Len(padded))

\* one unpack directive of w bytes: nil when the string is too short
UnpackBE(bytes, w) ==
  IF Len(bytes) < w THEN Nil ELSE RInt(StripZeros(SubSeq(bytes, 1, w)))

\* Ruby's String#[start, len]: nil past the end, else what is there
Slice(d, start, len) ==
  IF start > Len(d) \/ len < 0 THEN Nil
  ELSE RStr(SubSeq(d, start + 1, Min(start + len, Len(d))))

RECURSIVE Flatten(_)
Flatten(chunks) ==
  IF chunks = <<>> THEN <<>> ELSE Head(chunks) \o Flatten(Tail(chunks))

\* ------------------------------------------------------------- generators
Stmt(op, name, k) == [op |-> op, name |-> name, k |-> k]

Returned(buffer) == [raised |-> "", buffer |-> buffer]
Raised(exc) == [raised |-> exc, buffer |-> <<>>]

\* raise "message": a string exception where the interpreter still has them,
\* a TypeError (exceptions must derive from BaseException) where it does not
RaiseString(msg, strExc) == Raised(IF strExc THEN msg ELSE "TypeError")

genSingleEncode(cValue, type, strExc) ==
  CASE type = "shortstr" ->
         Returned(<<Stmt("push_bytesize_chr", cValue, 0), Stmt("push", cValue, 0)>>)
    [] type = "longstr" ->
         Returned(<<Stmt("push_bytesize_N", cValue, 0), Stmt("push", cValue, 0)>>)
    [] type = "octet" -> Returned(<<Stmt("push_pack_c", cValue, 0)>>)
    [] type = "short" -> Returned(<<Stmt("push_pack_n", cValue, 0)>>)
    [] type = "long" -> Returned(<<Stmt("push_pack_N", cValue, 0)>>)
    [] type = "longlong" -> Returned(<<Stmt("push_pack64", cValue, 0)>>)
    [] type = "timestamp" -> Returned(<<Stmt("push_pack64", cValue, 0)>>)
    [] type = "bit" -> RaiseString("Can't encode bit in genSingleEncode", strExc)
    [] type = "table" -> Returned(<<Stmt("push_table", cValue, 0)>>)
    [] OTHER -> RaiseString("Illegal domain in genSingleEncode", strExc)

genSingleDecode(cLvalue, type, strExc) ==
  CASE type = "shortstr" ->
         Returned(<<Stmt("length_unpack_c", 0, 2), Stmt("offset_add", 0, 1),
                    Stmt("assign_slice", cLvalue, 0), Stmt("offset_add_length", 0, 0)>>)
    [] type = "longstr" ->
         Returned(<<Stmt("length_unpack_N", 0, 5), Stmt("offset_add", 0, 4),
                    Stmt("assign_slice", cLvalue, 0), Stmt("offset_add_length", 0, 0)>>)
    [] type = "octet" ->
         Returned(<<Stmt("assign_unpack_c", cLvalue, 1), Stmt("offset_add", 0, 1)>>)
    [] type = "short" ->
         Returned(<<Stmt("assign_unpack_n", cLvalue, 3), Stmt("offset_add", 0, 2)>>)
    [] type = "long" ->
         Returned(<<Stmt("assign_unpack_N", cLvalue, 5), Stmt("offset_add", 0, 4)>>)
    [] type = "longlong" ->
         Returned(<<Stmt("assign_unpack64", cLvalue, 8), Stmt("offset_add", 0, 8)>>)
    [] type = "timestamp" ->
         Returned(<<Stmt("assign_unpack_N2", cLvalue, 7), Stmt("offset_add", 0, 8)>>)
    [] type = "bit" -> RaiseString("Can't decode bit in genSingleDecode", strExc)
    [] type = "table" ->
         Returned(<<Stmt("table_length", 0, 5), Stmt("assign_table", cLvalue, 0)>>)
    [] OTHER -> Raised("StandardError")

genSingleSimpleDecode(type, strExc) ==
  CASE type = "shortstr" -> Returned(<<Stmt("data", 0, 0)>>)
    [] type = "longstr" -> Returned(<<Stmt("data", 0, 0)>>)
    [] type = "octet" -> Returned(<<Stmt("data_unpack_c", 0, 0)>>)
    [] type = "short" -> Returned(<<Stmt("data_unpack_n", 0, 0)>>)
    [] type = "long" -> Returned(<<Stmt("data_unpack_N", 0, 0)>>)
    [] type = "longlong" -> Returned(<<Stmt("data_unpack64", 0, 0)>>)
    [] type = "timestamp" -> Returned(<<Stmt("time_at_data_unpack_N2_last", 0, 0)>>)
    [] type = "bit" -> RaiseString("Can't decode bit in genSingleDecode", strExc)
    [] type = "table" -> Returned(<<Stmt("table_decode_data", 0, 0)>>)
    [] OTHER -> Raised("StandardError")

\* finishBits() without its test of bit_index
finishBits_Unguarded(bit_index, buffer) == Append(buffer, Stmt("bit_flush", 0, 0))

\* finishBits() of genEncodeMethodDefinition: the buffer after the call
finishBits(bit_index, buffer) ==
  IF bit_index # None THEN Append(buffer, Stmt("bit_flush", 0, 0)) ELSE buffer

\* the bit branch rolling over one field late (bit_index > 8)
EncodeBitField_LateRoll(bit_index, buffer, f) ==
  LET opened == IF bit_index = None
                THEN [bit_index |-> Some(0),
                      buffer |-> Append(buffer, Stmt("bit_buffer_0", 0, 0))]
                ELSE [bit_index |-> bit_index, buffer |-> buffer]
      rolled == IF Get(opened.bit_index) > 8
                THEN [bit_index |-> Some(0),
                      buffer |-> Append(Append(opened.buffer, Stmt("bit_flush", 0, 0)),
                                        Stmt("bit_buffer_0", 0, 0))]
                ELSE opened
  IN [bit_index |-> Some(Get(rolled.bit_index) + 1),
      buffer |-> Append(rolled.buffer, Stmt("bit_or", f, Get(rolled.bit_index)))]

\* the bit branch of genEncodeMethodDefinition's loop for field f
EncodeBitField(bit_index, buffer, f) ==
  LET opened == IF bit_index = None
                THEN [bit_index |-> Some(0),
                      buffer |-> Append(buffer, Stmt("bit_buffer_0", 0, 0))]
                ELSE [bit_index |-> bit_index, buffer |-> buffer]
      rolled == IF Get(opened.bit_index) >= 8
                THEN [bit_index |-> Some(0),
                      buffer |-> Append(finishBits(opened.bit_index, opened.buffer),
                                        Stmt("bit_buffer_0", 0, 0))]
                ELSE opened
  IN [bit_index |-> Some(Get(rolled.bit_index) + 1),
      buffer |-> Append(rolled.buffer, Stmt("bit_or", f, Get(rolled.bit_index)))]

\* the other branch flushing the pending run after the field's statements
EncodeOtherField_FlushAfter(bit_index, buffer, chunk) ==
  IF bit_index # None THEN Append(buffer \o chunk, Stmt("bit_flush", 0, 0))
  ELSE buffer \o chunk

\* the other branch of that loop: finishBits(), then the field's statements
EncodeOtherField(bit_index, buffer, chunk) == finishBits(bit_index, buffer) \o chunk

\* the decode bit branch rolling over one field late (bitindex > 8)
DecodeBitField_LateRoll(bitindex, buffer, f) ==
  LET opened == IF bitindex = None THEN Some(0) ELSE bitindex
      rolled == IF Get(opened) > 8 THEN Some(0) ELSE opened
  IN [bitindex |-> Some(Get(rolled) + 1),
      buffer |-> IF Get(rolled) = 0
                 THEN buffer \o <<Stmt("bit_load", 0, 2), Stmt("offset_add", 0, 1),
                                  Stmt("bit_test", f, Get(rolled))>>
                 ELSE buffer]

\* the bit branch of genDecodeMethodDefinition's loop for field f
DecodeBitField(bitindex, buffer, f) ==
  LET opened == IF bitindex = None THEN Some(0) ELSE bitindex
      rolled == IF Get(opened) >= 8 THEN Some(0) ELSE opened
  IN [bitindex |-> Some(Get(rolled) + 1),
      buffer |-> IF Get(rolled) = 0
                 THEN buffer \o <<Stmt("bit_load", 0, 2), Stmt("offset_add", 0, 1),
                                  Stmt("bit_test", f, Get(rolled))>>
                 ELSE buffer]

\* ------------------------------------------------------------- Ruby: encode
\* Integer#chr of a string's bytesize (bytesize <= 255 for every shortstr)
Chr(n) == <<n>>

\* AMQ::Protocol::Table.encode: 4-byte big-endian body length, then the body
TableEncode(v) == PackBE(Digits(Len(v.b)), 4) \o v.b

\* AMQ::Hacks.pack_64_big_endian
Pack64(v) == PackBE(v.b, 8)

\* bit k of a small natural
BitOf(n, k) == (n \div (2 ^ k)) % 2 = 1

\* bit_buffer | (1 << k)
BitOr(n, k) == IF BitOf(n, k) THEN n ELSE n + 2 ^ k

\* one statement of the generated encode method; s = [ip, pieces, bit_buffer, err]
EncodeExec(st, s, F) ==
  LET x == IF st.name = 0 THEN Nil ELSE F[st.name]
      push(chunk) == [s EXCEPT !.pieces = Append(@, chunk)]
  IN CASE st.op = "push_bytesize_chr" -> push(Chr(Len(x.b)))
       [] st.op = "push_bytesize_N" -> push(PackBE(Digits(Len(x.b)), 4))
       [] st.op = "push" -> push(x.b)
       [] st.op = "push_pack_c" -> push(PackBE(x.b, 1))
       [] st.op = "push_pack_n" -> push(PackBE(x.b, 2))
       [] st.op = "push_pack_N" -> push(PackBE(x.b, 4))
       [] st.op = "push_pack64" -> push(Pack64(x))
       [] st.op = "push_table" -> push(TableEncode(x))
       [] st.op = "bit_buffer_0" -> [s EXCEPT !.bit_buffer = Some(0)]
       [] st.op = "bit_or" ->
            IF ~Truthy(x) THEN s
            ELSE IF s.bit_buffer = None THEN [s EXCEPT !.err = "NoMethodError"]
            ELSE [s EXCEPT !.bit_buffer = Some(BitOr(Get(@), st.k))]
       [] st.op = "bit_flush" ->
            IF s.bit_buffer = None THEN [s EXCEPT !.err = "TypeError"]
            ELSE push(<<Get(s.bit_buffer) % 256>>)

\* ------------------------------------------------------------- Ruby: decode
\* AMQ::Protocol::Table.length: the declared body length of a table
TableLength(sl) == UnpackBE(sl.b, 4)

\* AMQ::Protocol::Table.decode of a span: the body the declared length bounds
TableDecode(span) ==
  IF span.t = "nil" \/ Len(span.b) < 4 THEN [err |-> "TruncatedInput", val |-> Unset]
  ELSE LET declared == ToNat(StripZeros(SubSeq(span.b, 1, 4)))
       IN IF Len(span.b) < 4 + declared
          THEN [err |-> "TruncatedInput", val |-> Unset]
          ELSE [err |-> "", val |-> RTable(SubSeq(span.b, 5, 4 + declared))]

\* AMQ::Hacks.unpack_64_big_endian(...).first
Unpack64(sl) == UnpackBE(sl.b, 8)

\* (bit_buffer & (1 << k)) != 0; nil & x is false, and false != 0
BitTest(bit_buffer, k) ==
  IF bit_buffer.t = "nil" THEN TRUE ELSE BitOf(ToNat(bit_buffer.b), k)

\* x = data[offset, k].unpack(...).first for the fixed-width domains
UnpackField(op, sl) ==
  CASE op = "assign_unpack_c" -> UnpackBE(sl.b, 1)
    [] op = "assign_unpack_n" -> UnpackBE(sl.b, 2)
    [] op = "assign_unpack_N" -> UnpackBE(sl.b, 4)
    [] op = "assign_unpack64" -> Unpack64(sl)
    [] op = "assign_unpack_N2" -> UnpackBE(sl.b, 4)

\* one statement of the generated decode method;
\* s = [ip, offset, length, table_length, bit_buffer, vars, err, span]
DecodeExec(st, s, d) ==
  LET sl == Slice(d, s.offset, st.k)
      fail(e) == [s EXCEPT !.err = e]
  IN CASE st.op \in {"length_unpack_c", "length_unpack_N"} ->
            IF sl = Nil THEN fail("NoMethodError")
            ELSE [s EXCEPT !.length =
                    UnpackBE(sl.b, IF st.op = "length_unpack_c" THEN 1 ELSE 4)]
       [] st.op = "offset_add" -> [s EXCEPT !.offset = @ + st.k]
       [] st.op = "assign_slice" ->
            IF s.length = Nil THEN fail("TypeError")
            ELSE [s EXCEPT !.vars[st.name] = Slice(d, s.offset, ToNat(s.length.b))]
       [] st.op = "offset_add_length" ->
            IF s.length = Nil THEN fail("TypeError")
            ELSE [s EXCEPT !.offset = @ + ToNat(s.length.b)]
       [] st.op \in {"assign_unpack_c", "assign_unpack_n", "assign_unpack_N",
                     "assign_unpack64", "assign_unpack_N2"} ->
            IF sl = Nil THEN fail("NoMethodError")
            ELSE [s EXCEPT !.vars[st.name] = UnpackField(st.op, sl)]
       [] st.op = "table_length" ->
            IF sl = Nil THEN fail("NoMethodError")
            ELSE [s EXCEPT !.table_length = TableLength(sl)]
       [] st.op = "assign_table" ->
            IF s.table_length = Nil THEN fail("NoMethodError")
            ELSE LET span == Slice(d, s.offset, ToNat(s.table_length.b) - s.offset + 1)
                     got == TableDecode(span)
                 IN [s EXCEPT !.span = span, !.err = got.err,
                              !.vars[st.name] = got.val]
       [] st.op = "bit_load" ->
            IF sl = Nil THEN fail("NoMethodError")
            ELSE [s EXCEPT !.bit_buffer = UnpackBE(sl.b, 1)]
       [] st.op = "bit_test" ->
            [s EXCEPT !.vars[st.name] = RBool(BitTest(s.bit_buffer, st.k))]

\* ------------------------------------------------------------- inputs
\* m.arguments: mixed lists of at most MaxArgs fields, and pure bit runs of
\* at most MaxRun fields; a field is its resolved domain, its ruby_name is
\* its position
MixedSchemas == UNION {[1..n -> AllDomains] : n \in 0..MaxArgs}
RunSchemas == {[i \in 1..n |-> "bit"] : n \in 0..MaxRun}
Schemas == MixedSchemas \cup RunSchemas

\* the values a caller may give a field of each domain
Values(d) ==
  CASE d = "bit" -> {RBool(TRUE), RBool(FALSE)}
    [] d = "shortstr" -> {RStr(<<>>), RStr(<<65, 66>>)}
    [] d = "longstr" -> {RStr(<<>>), RStr(<<65>>)}
    [] d = "octet" -> {RInt(<<1>>), RInt(<<255>>)}
    [] d = "short" -> {RInt(<<1, 255>>)}
    [] d = "long" -> {RInt(<<1, 0, 255>>)}
    [] d = "longlong" -> {RInt(<<1, 0, 0, 0, 255>>)}
    [] d = "timestamp" ->
         {RInt(<<1>>), RInt(<<255, 255, 255, 255, 255, 255, 255, 255>>)}
    [] d = "table" -> {RTable(<<>>), RTable(<<1, 107, 116, 1>>)}
    [] OTHER -> {Nil}

RECURSIVE Valuations(_)
Valuations(schema) ==
  IF schema = <<>> THEN {<<>>}
  ELSE {<<v>> \o rest : v \in Values(Head(schema)), rest \in Valuations(Tail(schema))}

\* ------------------------------------------------------------- state
VARIABLES
  arguments,   \* m.arguments, as resolved domains
  pc,          \* which call is running
  genE,        \* genEncodeMethodDefinition / genSingleEncode: i, bit_index,
               \*   buffer, err, and per field the buffer length (mark) and
               \*   whether a run was left open (open)
  genD,        \* genDecodeMethodDefinition / genSingleDecode: i, bitindex,
               \*   buffer, err, mark
  simple,      \* genSingleSimpleDecode: what it returned or raised
  values,      \* the field values handed to the generated encode method
  rbE,         \* the generated encode method: ip, pieces, bit_buffer, err,
               \*   and the bytes emitted after each statement (trace)
  data,        \* the buffer handed to the generated decode method
  rbD          \* the generated decode method: ip, offset, length,
               \*   table_length, bit_buffer, vars, err, the span last handed
               \*   to Table.decode, and the offset after each statement (trace)

vars == <<arguments, pc, genE, genD, simple, values, rbE, data, rbD>>

GenE0 == [i |-> 1, bit_index |-> None, buffer |-> <<>>, err |-> "",
          mark |-> <<>>, open |-> <<>>]
GenD0 == [i |-> 1, bitindex |-> None, buffer |-> <<>>, err |-> "", mark |-> <<>>]
RbE0 == [ip |-> 1, pieces |-> <<>>, bit_buffer |-> None, err |-> "",
         trace |-> <<>>]
RbD0 == [ip |-> 1, offset |-> 0, length |-> Nil, table_length |-> Nil,
         bit_buffer |-> Nil, vars |-> <<>>, err |-> "", span |-> Nil,
         trace |-> <<>>]

InitWith(schemas, start) ==
  /\ arguments \in schemas
  /\ pc = start
  /\ genE = GenE0
  /\ genD = GenD0
  /\ simple = Returned(<<>>)
  /\ values = <<>>
  /\ rbE = RbE0
  /\ data = <<>>
  /\ rbD = RbD0

Init == InitWith(Schemas, "genEncode")

\* ------------------------------------------------------------- generation
\* one iteration of genEncodeMethodDefinition's loop
GenEncodeField ==
  /\ pc = "genEncode"
  /\ genE.i <= Len(arguments)
  /\ LET f == genE.i
     IN IF arguments[f] = "bit"
        THEN LET r == EncodeBitField(genE.bit_index, genE.buffer, f)
             IN /\ genE' = [genE EXCEPT !.i = f + 1, !.bit_index = r.bit_index,
                                        !.buffer = r.buffer,
                                        !.mark = Append(@, Len(r.buffer)),
                                        !.open = Append(@, TRUE)]
                /\ pc' = pc
        ELSE \E strExc \in BOOLEAN :
               LET r == genSingleEncode(f, arguments[f], strExc)
                   b == EncodeOtherField(genE.bit_index, genE.buffer, r.buffer)
               IN IF r.raised # ""
                  THEN /\ genE' = [genE EXCEPT !.bit_index = None, !.buffer = b,
                                               !.err = r.raised]
                       /\ pc' = "raised"
                  ELSE /\ genE' = [genE EXCEPT !.i = f + 1, !.bit_index = None,
                                      !.buffer = b,
                                      !.mark = Append(@, Len(b)),
                                      !.open = Append(@, FALSE)]
                       /\ pc' = pc
  /\ UNCHANGED <<arguments, genD, simple, values, rbE, data, rbD>>

\* the end of genEncodeMethodDefinition: finishBits(), return buffer
GenEncodeReturn ==
  /\ pc = "genEncode"
  /\ genE.i > Len(arguments)
  /\ genE' = [genE EXCEPT !.buffer = finishBits(genE.bit_index, @)]
  /\ pc' = "genDecode"
  /\ UNCHANGED <<arguments, genD, simple, values, rbE, data, rbD>>

\* one iteration of genDecodeMethodDefinition's loop
GenDecodeField ==
  /\ pc = "genDecode"
  /\ genD.i <= Len(arguments)
  /\ LET f == genD.i
     IN IF arguments[f] = "bit"
        THEN LET r == DecodeBitField(genD.bitindex, genD.buffer, f)
             IN /\ genD' = [genD EXCEPT !.i = f + 1, !.bitindex = r.bitindex,
                                        !.buffer = r.buffer,
                                        !.mark = Append(@, Len(r.buffer))]
                /\ pc' = pc
        ELSE \E strExc \in BOOLEAN :
               LET r == genSingleDecode(f, arguments[f], strExc)
               IN IF r.raised # ""
                  THEN /\ genD' = [genD EXCEPT !.bitindex = None, !.err = r.raised]
                       /\ pc' = "raised"
                  ELSE /\ genD' = [genD EXCEPT !.i = f + 1, !.bitindex = None,
                                      !.buffer = @ \o r.buffer,
                                      !.mark = Append(@, Len(genD.buffer \o r.buffer))]
                       /\ pc' = pc
  /\ UNCHANGED <<arguments, genE, simple, values, rbE, data, rbD>>

\* the end of genDecodeMethodDefinition: return buffer
GenDecodeReturn ==
  /\ pc = "genDecode"
  /\ genD.i > Len(arguments)
  /\ pc' = "ready"
  /\ UNCHANGED <<arguments, genE, genD, simple, values, rbE, data, rbD>>

\* ------------------------------------------------------------- single calls
InitSingle == InitWith({<<d>> : d \in AllDomains}, "genSingleEncode")

\* genSingleEncode called for one field
CallSingleEncode ==
  /\ pc = "genSingleEncode"
  /\ \E strExc \in BOOLEAN :
       LET r == genSingleEncode(1, arguments[1], strExc)
       IN genE' = [genE EXCEPT !.buffer = r.buffer, !.err = r.raised,
                               !.mark = <<Len(r.buffer)>>, !.open = <<FALSE>>]
  /\ pc' = "genSingleDecode"
  /\ UNCHANGED <<arguments, genD, simple, values, rbE, data, rbD>>

\* genSingleDecode called for one field
CallSingleDecode ==
  /\ pc = "genSingleDecode"
  /\ \E strExc \in BOOLEAN :
       LET r == genSingleDecode(1, arguments[1], strExc)
       IN genD' = [genD EXCEPT !.buffer = r.buffer, !.err = r.raised,
                               !.mark = <<Len(r.buffer)>>]
  /\ pc' = "genSingleSimpleDecode"
  /\ UNCHANGED <<arguments, genE, simple, values, rbE, data, rbD>>

\* genSingleSimpleDecode called for one field
CallSingleSimpleDecode ==
  /\ pc = "genSingleSimpleDecode"
  /\ \E strExc \in BOOLEAN : simple' = genSingleSimpleDecode(arguments[1], strExc)
  /\ pc' = IF genE.err = "" /\ genD.err = "" THEN "ready" ELSE "raised"
  /\ UNCHANGED <<arguments, genE, genD, values, rbE, data, rbD>>

\* ------------------------------------------------------------- running
\* the generated encode method is called with field values
CallEncode ==
  /\ pc = "ready"
  /\ values' \in Valuations(arguments)
  /\ pc' = "encode"
  /\ UNCHANGED <<arguments, genE, genD, simple, rbE, data, rbD>>

\* one statement of the generated encode method
EncodeStmt ==
  /\ pc = "encode"
  /\ rbE.ip <= Len(genE.buffer)
  /\ rbE.err = ""
  /\ LET s == EncodeExec(genE.buffer[rbE.ip], rbE, values)
     IN rbE' = [s EXCEPT !.ip = @ + 1,
                         !.trace = Append(@, Len(Flatten(s.pieces)))]
  /\ UNCHANGED <<arguments, pc, genE, genD, simple, values, data, rbD>>

\* pieces.join reaches the generated decode method, less its last cut bytes
DeliverCut(cut) ==
  /\ pc = "encode"
  /\ rbE.ip > Len(genE.buffer)
  /\ rbE.err = ""
  /\ LET joined == Flatten(rbE.pieces)
     IN /\ cut <= Len(joined)
        /\ data' = SubSeq(joined, 1, Len(joined) - cut)
  /\ rbD' = [rbD EXCEPT !.vars = [i \in 1..Len(arguments) |-> Unset]]
  /\ pc' = "decode"
  /\ UNCHANGED <<arguments, genE, genD, simple, values, rbE>>

Deliver == DeliverCut(0)

DeliverTruncated == \E cut \in 0..MaxCut : DeliverCut(cut)

\* one statement of the generated decode method
DecodeStmt ==
  /\ pc = "decode"
  /\ rbD.ip <= Len(genD.buffer)
  /\ rbD.err = ""
  /\ LET s == DecodeExec(genD.buffer[rbD.ip], rbD, data)
     IN rbD' = [s EXCEPT !.ip = @ + 1, !.trace = Append(@, s.offset)]
  /\ UNCHANGED <<arguments, pc, genE, genD, simple, values, rbE, data>>

\* the generated decode method returns, or its exception leaves it
DecodeReturn ==
  /\ pc = "decode"
  /\ (rbD.ip > Len(genD.buffer) \/ rbD.err # "")
  /\ pc' = "done"
  /\ UNCHANGED <<arguments, genE, genD, simple, values, rbE, data, rbD>>

Next ==
  \/ GenEncodeField
  \/ GenEncodeReturn
  \/ GenDecodeField
  \/ GenDecodeReturn
  \/ CallEncode
  \/ EncodeStmt
  \/ Deliver
  \/ DecodeStmt
  \/ DecodeReturn

Spec == Init /\ [][Next]_vars

NextSingle ==
  \/ CallSingleEncode
  \/ CallSingleDecode
  \/ CallSingleSimpleDecode
  \/ CallEncode
  \/ EncodeStmt
  \/ DeliverTruncated
  \/ DecodeStmt
  \/ DecodeReturn

SpecSingle == InitSingle /\ [][NextSingle]_vars

\* ------------------------------------------------------------- properties
\* how many of buf[from..to] satisfy the test
RECURSIVE CountOps(_, _, _, _)
CountOps(buf, from, to, ops) ==
  IF from > to THEN 0
  ELSE (IF buf[from].op \in ops THEN 1 ELSE 0) + CountOps(buf, from + 1, to, ops)

PushOps ==
  {"push_bytesize_chr", "push_bytesize_N", "push", "push_pack_c", "push_pack_n",
   "push_pack_N", "push_pack64", "push_table", "bit_flush"}

\* the first statement emitted for field a, and the last emitted up to field b
SegStart(a) == IF a = 1 THEN 1 ELSE genE.mark[a - 1] + 1

\* the maximal bit runs of m.arguments
IsRunStart(a) ==
  /\ a \in 1..Len(arguments)
  /\ arguments[a] = "bit"
  /\ (a = 1 \/ arguments[a - 1] # "bit")

RunEnd(a) ==
  CHOOSE b \in a..Len(arguments) :
    /\ \A i \in a..b : arguments[i] = "bit"
    /\ (b = Len(arguments) \/ arguments[b + 1] # "bit")

Ceil8(n) == (n + 7) \div 8

\* the octet that packs fields base .. base + cnt - 1, least significant first
RECURSIVE SumBits(_, _, _, _)
SumBits(F, base, cnt, i) ==
  IF i >= cnt THEN 0
  ELSE (IF F[base + i] = RBool(TRUE) THEN 2 ^ i ELSE 0) + SumBits(F, base, cnt, i + 1)

\* octet j of the run of n fields that starts at field a
RunOctet(F, a, n, j) == SumBits(F, a + 8 * j, Min(8, n - 8 * j), 0)

\* the octets all maximal runs from field a on need
RECURSIVE TotalRunOctets(_)
TotalRunOctets(a) ==
  IF a > Len(arguments) THEN 0
  ELSE (IF IsRunStart(a) THEN Ceil8(RunEnd(a) - a + 1) ELSE 0) + TotalRunOctets(a + 1)

Generated == pc \in {"genDecode", "ready", "encode", "decode", "done"}
Encoded == pc \in {"decode", "done"}

\* the scan of a statement list as runs: "bad" when an accumulator is
\* initialised while one is open, or flushed or used while none is, or a
\* non-bit chunk is emitted while one is open; else how the list ends
RECURSIVE ScanRuns(_, _, _)
ScanRuns(buf, i, open) ==
  IF i > Len(buf) THEN (IF open THEN "open" ELSE "closed")
  ELSE LET op == buf[i].op
       IN CASE op = "bit_buffer_0" ->
                 IF open THEN "bad" ELSE ScanRuns(buf, i + 1, TRUE)
            [] op = "bit_flush" ->
                 IF open THEN ScanRuns(buf, i + 1, FALSE) ELSE "bad"
            [] op = "bit_or" ->
                 IF open THEN ScanRuns(buf, i + 1, TRUE) ELSE "bad"
            [] OTHER -> IF open THEN "bad" ELSE ScanRuns(buf, i + 1, FALSE)

\* C10: in every state of genEncodeMethodDefinition the run is closed or
\* bit_index is in 0..8, every shift emitted is in 0..7, every accumulator
\* initialisation is flushed exactly once before the next initialisation, the
\* next non-bit chunk or the end of the list, and nothing is flushed while no
\* run is open.
C10_AccumulatorDiscipline ==
  /\ genE.bit_index = None \/ Get(genE.bit_index) \in 0..8
  /\ \A i \in 1..Len(genE.buffer) :
       genE.buffer[i].op = "bit_or" => genE.buffer[i].k \in 0..7
  /\ ScanRuns(genE.buffer, 1, FALSE) =
       IF pc = "genEncode" /\ genE.bit_index # None THEN "open" ELSE "closed"

\* a run of nine bits has rolled over: two accumulators, each flushed
C10_Witness ==
  /\ pc = "genDecode"
  /\ Len(arguments) = 9
  /\ CountOps(genE.buffer, 1, Len(genE.buffer), {"bit_buffer_0"}) = 2
  /\ CountOps(genE.buffer, 1, Len(genE.buffer), {"bit_flush"}) = 2

\* C3: a maximal run of n bit fields is encoded as exactly ceil(n/8) octets,
\* field i of the run setting bit (i mod 8) of octet floor(i/8) iff it is
\* true, the unused high bits zero; nothing is flushed but the runs' octets.
C3_BitRunEncode ==
  Encoded =>
    /\ \A a \in 1..Len(arguments) :
         IsRunStart(a) =>
           LET b == RunEnd(a)
               n == b - a + 1
               c0 == CountOps(genE.buffer, 1, SegStart(a) - 1, PushOps)
               segEnd == IF b = Len(arguments) THEN Len(genE.buffer)
                         ELSE genE.mark[b] + 1
           IN /\ CountOps(genE.buffer, SegStart(a), segEnd, {"bit_flush"}) = Ceil8(n)
              /\ CountOps(genE.buffer, SegStart(a), segEnd, PushOps) = Ceil8(n)
              /\ \A j \in 0..(Ceil8(n) - 1) :
                   rbE.pieces[c0 + j + 1] = <<RunOctet(values, a, n, j)>>
    /\ CountOps(genE.buffer, 1, Len(genE.buffer), {"bit_flush"}) = TotalRunOctets(1)

\* ten booleans T,F,T,F,T,F,T,F,T,F became the two octets 0x55, 0x01
C3_Witness ==
  /\ pc = "done"
  /\ arguments = [i \in 1..10 |-> "bit"]
  /\ values = [i \in 1..10 |-> RBool(i % 2 = 1)]
  /\ rbE.pieces = <<(<<85>>), (<<1>>)>>

\* the chunks a statement list emits when run on its own
RECURSIVE ExecAll(_, _, _, _)
ExecAll(stmts, i, s, F) ==
  IF i > Len(stmts) THEN s.pieces
  ELSE ExecAll(stmts, i + 1, EncodeExec(stmts[i], s, F), F)

\* the chunks of field f alone, by genSingleEncode's statements for it
FieldChunks(f) == ExecAll(genSingleEncode(f, arguments[f], TRUE).buffer, 1, RbE0, values)

\* the chunks of fields a.. in declared order: each maximal run as its own
\* octets from bit 0, every other field as its own chunks
RECURSIVE Expected(_)
Expected(a) ==
  IF a > Len(arguments) THEN <<>>
  ELSE IF arguments[a] = "bit"
       THEN LET b == RunEnd(a)
                n == b - a + 1
            IN [j \in 1..Ceil8(n) |-> <<RunOctet(values, a, n, j - 1)>>] \o Expected(b + 1)
       ELSE FieldChunks(a) \o Expected(a + 1)

\* C8: the chunks appear in declared field order; a pending run's octet is
\* emitted before the bytes of the non-bit field that follows it, a run
\* pending at the end is flushed last, and runs a non-bit field separates
\* share no octet: each starts a fresh accumulator at bit 0.
C8_EncodeOrdering ==
  /\ Generated =>
       /\ \A i, j \in 1..Len(genE.buffer) :
            (i < j /\ genE.buffer[i].name # 0 /\ genE.buffer[j].name # 0)
              => genE.buffer[i].name <= genE.buffer[j].name
       /\ \A i \in 1..Len(genE.buffer) :
            genE.buffer[i].op = "bit_buffer_0" =>
              /\ i < Len(genE.buffer)
              /\ genE.buffer[i + 1].op = "bit_or"
              /\ genE.buffer[i + 1].k = 0
       /\ (arguments # <<>> /\ arguments[Len(arguments)] = "bit") =>
            genE.buffer[Len(genE.buffer)].op = "bit_flush"
  /\ Encoded => rbE.pieces = Expected(1)

\* a bit, an octet and a bit were encoded as three chunks, one octet each
C8_Witness ==
  /\ pc = "done"
  /\ arguments = <<"bit", "octet", "bit">>
  /\ values = <<RBool(TRUE), RInt(<<255>>), RBool(TRUE)>>
  /\ rbE.pieces = <<(<<1>>), (<<255>>), (<<1>>)>>

NoTable == \A i \in 1..Len(arguments) : arguments[i] # "table"

\* the decode cursor after the statements of fields 1..k
OffsetAfter(k) == IF genD.mark[k] = 0 THEN 0 ELSE rbD.trace[genD.mark[k]]

\* the bytes the encoder emitted for fields 1..k, an open run's octet counted
EmittedThrough(k) ==
  (IF genE.mark[k] = 0 THEN 0 ELSE rbE.trace[genE.mark[k]])
    + (IF genE.open[k] THEN 1 ELSE 0)

\* C9: with no table field, the decode cursor after field k equals the bytes
\* the encoder emitted for the fields up to k (a bit octet counted at the
\* first field of its group); after the last field the cursor is the length
\* of the buffer, and decode reads as many bit octets as encode flushed.
C9_CursorAgreement ==
  (Encoded /\ NoTable) =>
    /\ \A k \in 1..Len(arguments) :
         Len(rbD.trace) >= genD.mark[k] => OffsetAfter(k) = EmittedThrough(k)
    /\ pc = "done" =>
         /\ rbD.err = ""
         /\ rbD.offset = Len(data)
         /\ CountOps(genD.buffer, 1, Len(genD.buffer), {"bit_load"})
              = CountOps(genE.buffer, 1, Len(genE.buffer), {"bit_flush"})

\* a bit, the short string "AB" and a bit were decoded: the cursor is at 5
C9_Witness ==
  /\ pc = "done"
  /\ arguments = <<"bit", "shortstr", "bit">>
  /\ values[2] = RStr(<<65, 66>>)
  /\ rbD.offset = 5
  /\ Len(data) = 5

\* C1: decoding what was encoded yields exactly the field values:
\* decode(S, encode(S, F)) = F for every field of S.
C1_SchemaRoundTrip ==
  pc = "done" =>
    /\ rbD.err = ""
    /\ \A i \in 1..Len(arguments) : rbD.vars[i] = values[i]

\* C2: every field of a bit run (position i in the run) is assigned bit
\* (i mod 8) of the octet loaded for its group of 8, and the cursor
\* advances by one octet per group.
C2_BitRunDecode ==
  (pc = "done" /\ NoTable) =>
    \A a \in 1..Len(arguments) :
      IsRunStart(a) =>
        /\ \A i \in 0..(RunEnd(a) - a) :
             LET g == a + 8 * (i \div 8)
             IN rbD.vars[a + i] = RBool(BitOf(data[OffsetAfter(g)], i % 8))
        /\ OffsetAfter(RunEnd(a))
             = (IF a = 1 THEN 0 ELSE OffsetAfter(a - 1)) + Ceil8(RunEnd(a) - a + 1)

\* C4: decoding a table field at cursor p hands the table decoder exactly
\* the span [p, p + 4 + declared_length) and leaves the cursor at
\* p + 4 + declared_length.
C4_TableFraming ==
  (/\ pc = "decode"
   /\ rbD.ip > 2
   /\ genD.buffer[rbD.ip - 1].op = "assign_table"
   /\ rbD.table_length # Nil) =>
    LET p == IF rbD.ip > 3 THEN rbD.trace[rbD.ip - 3] ELSE 0
        declared == ToNat(rbD.table_length.b)
    IN /\ rbD.span = Slice(data, p, 4 + declared)
       /\ rbD.offset = p + 4 + declared

StringOrScalar ==
  {"shortstr", "longstr", "octet", "short", "long", "longlong", "timestamp"}

\* C5: for each string or scalar domain, genSingleDecode's statements run on
\* the bytes of genSingleEncode's statements return the value and advance
\* the cursor by the bytes encoded.
C5_DomainRoundTrip ==
  (pc = "done" /\ arguments[1] \in StringOrScalar /\ data = Flatten(rbE.pieces)) =>
    /\ rbD.vars[1] = values[1]
    /\ rbD.offset = Len(data)

\* C6: a buffer shorter than the field needs is rejected: decode fails (any
\* exception is taken for TruncatedInput) and yields no field value.
C6_TruncatedRejected ==
  (pc = "done" /\ Len(data) < Len(Flatten(rbE.pieces))) =>
    /\ rbD.err # ""
    /\ \A i \in 1..Len(arguments) : rbD.vars[i] = Unset

\* what each generator can raise for a domain that is none of the nine
IllegalEncodeErrors == {genSingleEncode(1, "bogus", x).raised : x \in BOOLEAN}
IllegalDecodeErrors == {genSingleDecode(1, "bogus", x).raised : x \in BOOLEAN}
IllegalSimpleErrors == {genSingleSimpleDecode("bogus", x).raised : x \in BOOLEAN}

\* C7: genSingleEncode, genSingleDecode and genSingleSimpleDecode raise for
\* bit and for a domain that is none of the nine, return nothing then, and
\* the error raised for bit is not one raised for an illegal domain.
C7_DomainErrors ==
  (pc \in {"ready", "raised"} /\ arguments[1] \in {"bit", "bogus"}) =>
    /\ genE.err # "" /\ genE.buffer = <<>>
    /\ genD.err # "" /\ genD.buffer = <<>>
    /\ simple.raised # "" /\ simple.buffer = <<>>
    /\ arguments[1] = "bit" =>
         /\ genE.err \notin IllegalEncodeErrors
         /\ genD.err \notin IllegalDecodeErrors
         /\ simple.raised \notin IllegalSimpleErrors

====
